---- MODULE Spec2Model ----
(***************************************************************************)
(* Model of the two HTTP services of segmenting.js:                        *)
(*   - POST /api/remove-background (multer upload + removeBackground),     *)
(*   - POST /api/render (simple puppeteer render),                         *)
(*   - POST /render (captureHtml: preprocess, inline fonts, stabilise,     *)
(*     screenshot),                                                        *)
(* and of the pure HTML preprocessing functions processHtmlForRendering    *)
(* and inlineGoogleFonts, on HTML abstracted to a sequence of tokens.      *)
(***************************************************************************)
EXTENDS Integers, Sequences, FiniteSets, TLC

(* ---------- bounds ---------- *)
\* number of requests in flight at once
NumReqs == 2
\* <img> elements still loading when the stabilisation wait starts
MaxImages == 1
\* length of the HTML token sequences fed to the preprocessing functions
MaxLen == 3

(* ---------- program constants ---------- *)
\* for (let i = 0; i < 10; i++)
FrameRounds == 10

Reqs == 1 .. NumReqs

NoPath == 0
NoBrowser == 0
NoBuffer == 0

VARIABLES
    pc,            \* position of each request in its handler
    endpoint,      \* route the request was sent to
    upload,        \* multipart part of a remove-background request
    htmlKind,      \* JavaScript value of req.body.html of a render request
    reqFile,       \* req.file is set (multer stored the upload)
    tempPath,      \* local `tempPath` of the remove-background handler
    disk,          \* files present under uploads/
    unlinkLogged,  \* console.error('Failed to delete temp file:') was written
    browser,       \* local `browser` of the render handlers / captureHtml
    browserState,  \* the browser processes: "none", "open", "closed"
    closedBy,      \* which request's close() call closed each browser
    closeFailed,   \* browsers on which a close() call rejected
    imagesPending, \* images of the page not yet loaded or errored
    frame,         \* loop counter i of the stabilisation loop
    buffer,        \* result buffer of the request (which browser/file made it)
    responses,     \* HTTP responses written to each request's `res`
    escaped,       \* the async handler's promise rejected (nothing caught it)
    hPc,           \* position in the preprocessing pipeline
    html,          \* input HTML of the preprocessing pipeline
    cleanHtml,     \* captureHtml's `cleanHtml`
    links,         \* inlineGoogleFonts' `links` still to be visited
    inlined,       \* inlineGoogleFonts' `inlined`
    fetched        \* outcome of each fetch(href) made so far

reqVars == <<pc, endpoint, upload, htmlKind, reqFile, tempPath, disk, unlinkLogged,
             browser, browserState, closedBy, closeFailed, imagesPending, frame,
             buffer, responses, escaped>>
htmlVars == <<hPc, html, cleanHtml, links, inlined, fetched>>
vars == <<reqVars, htmlVars>>

(* ---------- inputs ---------- *)
Endpoints == {"rmbg", "apiRender", "render"}

\* the uploaded part: absent, accepted, of a MIME type outside allowedMimes,
\* or longer than limits.fileSize
Uploads == {"none", "ok", "badMime", "tooBig"}

\* values req.body.html can take after express.json()
\* (typeof of an array is 'object' too, so "object" stands for both)
HtmlKinds == {"undefined", "emptyString", "string", "number", "object"}

\* JavaScript truthiness of the value (the number is non-zero)
Truthy(k) == k \in {"string", "number", "object"}

\* typeof html === 'string'
IsString(k) == k \in {"emptyString", "string"}

\* fileFilter: allowedMimes.includes(file.mimetype)
fileFilter(u) == u # "badMime"

\* limits.fileSize: the part is longer than 10 * 1024 * 1024 bytes
OverLimit(u) == u = "tooBig"

\* if (!html) of POST /api/render
ApiRenderRejects(k) == ~Truthy(k)

\* if (!html || typeof html !== 'string') of POST /render
RenderRejects(k) == ~Truthy(k) \/ ~IsString(k)

(* ---------- control flow of the handlers ---------- *)
\* Flow with the 200 response written before the cleanup step
FlowRespondFirst(e) ==
    CASE e = "rmbg" ->
           <<"multer", "checkFile", "readFile", "removeBackground", "arrayBuffer",
             "send", "unlink", "done">>
      [] e = "apiRender" ->
           <<"validate", "launch", "newPage", "setViewport", "setContent",
             "screenshot", "send", "close", "done">>
      [] e = "render" ->
           <<"validate", "preprocess", "launch", "newPage", "setUserAgent",
             "setBypassCSP", "setViewport", "evaluateOnNewDocument", "setContent",
             "fontsReady", "images", "frames", "delay", "screenshot", "pageClose",
             "send", "close", "done">>

\* the statements of each handler's try block, in source order
Flow(e) ==
    CASE e = "rmbg" ->
           <<"multer", "checkFile", "readFile", "removeBackground", "arrayBuffer",
             "unlink", "send", "done">>
      [] e = "apiRender" ->
           <<"validate", "launch", "newPage", "setViewport", "setContent",
             "screenshot", "close", "send", "done">>
      [] e = "render" ->
           <<"validate", "preprocess", "launch", "newPage", "setUserAgent",
             "setBypassCSP", "setViewport", "evaluateOnNewDocument", "setContent",
             "fontsReady", "images", "frames", "delay", "screenshot", "pageClose",
             "close", "send", "done">>

\* the statement that follows p in the handler of endpoint e
Succ(e, p) ==
    LET f == Flow(e)
        i == CHOOSE j \in 1 .. Len(f) : f[j] = p
    IN  f[i + 1]

\* where control goes when an awaited call of the try block rejects
CatchOf(e) ==
    CASE e = "rmbg" -> "catchUnlink"
      [] e = "apiRender" -> "catchClose"
      [] e = "render" -> "captureCatch"

\* awaited library calls that change nothing the model tracks when they resolve
PlainSteps == {"readFile", "removeBackground", "newPage", "setUserAgent",
               "setBypassCSP", "setViewport", "evaluateOnNewDocument",
               "fontsReady", "preprocess", "delay", "pageClose"}

\* awaited calls that can reject; processHtmlForRendering is synchronous and
\* total, inlineGoogleFonts catches everything, the 500 ms timer cannot reject
ThrowingSteps == {"readFile", "removeBackground", "arrayBuffer", "launch", "newPage",
                  "setUserAgent", "setBypassCSP", "setViewport",
                  "evaluateOnNewDocument", "setContent", "fontsReady", "images",
                  "frames", "screenshot", "pageClose"}

\* a catch block that answers without deleting the temp file
CatchNeverUnlinks(r) == FALSE

\* if (tempPath) in the catch block of /api/remove-background
CatchShouldUnlink(r) == tempPath[r] # NoPath

\* a catch block that leaves the browser running
CatchNeverCloses(r) == FALSE

\* if (browser) in the catch blocks of /api/render and captureHtml
CatchShouldClose(r) == browser[r] # NoBrowser

\* `browser` kept in one module-level variable: close() reaches whichever
\* browser is running
CloseTargetShared(r) ==
    IF \E b \in Reqs : b # r /\ browserState[b] = "open"
      THEN CHOOSE b \in Reqs : b # r /\ browserState[b] = "open"
      ELSE browser[r]

\* the browser that `browser.close()` of request r acts on: its own local
CloseTarget(r) == browser[r]

Respond(r, status, body) ==
    responses' = [responses EXCEPT ![r] = Append(@, [status |-> status, body |-> body])]

(* ---------- initial state ---------- *)
ReqInit ==
    /\ pc = [r \in Reqs |-> "idle"]
    /\ endpoint = [r \in Reqs |-> "none"]
    /\ upload = [r \in Reqs |-> "none"]
    /\ htmlKind = [r \in Reqs |-> "undefined"]
    /\ reqFile = [r \in Reqs |-> FALSE]
    /\ tempPath = [r \in Reqs |-> NoPath]
    /\ disk = {}
    /\ unlinkLogged = {}
    /\ browser = [r \in Reqs |-> NoBrowser]
    /\ browserState = [b \in Reqs |-> "none"]
    /\ closedBy = [b \in Reqs |-> 0]
    /\ closeFailed = {}
    /\ imagesPending = [r \in Reqs |-> 0]
    /\ frame = [r \in Reqs |-> 0]
    /\ buffer = [r \in Reqs |-> NoBuffer]
    /\ responses = [r \in Reqs |-> <<>>]
    /\ escaped = [r \in Reqs |-> FALSE]

HtmlIdle ==
    /\ hPc = "off"
    /\ html = <<>>
    /\ cleanHtml = <<>>
    /\ links = <<>>
    /\ inlined = <<>>
    /\ fetched = <<>>

Init == ReqInit /\ HtmlIdle

(* ---------- actions of the handlers ---------- *)
\* a request reaches one of the three POST routes
Arrive(r) ==
    /\ pc[r] = "idle"
    /\ \E e \in Endpoints :
         /\ endpoint' = [endpoint EXCEPT ![r] = e]
         /\ pc' = [pc EXCEPT ![r] = Flow(e)[1]]
         /\ IF e = "rmbg"
              THEN /\ \E u \in Uploads : upload' = [upload EXCEPT ![r] = u]
                   /\ UNCHANGED htmlKind
              ELSE /\ \E k \in HtmlKinds : htmlKind' = [htmlKind EXCEPT ![r] = k]
                   /\ UNCHANGED upload
    /\ UNCHANGED <<reqFile, tempPath, disk, unlinkLogged, browser, browserState,
                   closedBy, closeFailed, imagesPending, frame, buffer, responses,
                   escaped, htmlVars>>

\* upload.single('image'): no part, a stored part, a part fileFilter refuses
\* (cb(new Error(..)) -> next(err), no error middleware is registered, so
\* Express's default handler answers 500), or a part that starts to be stored
Multer(r) ==
    /\ pc[r] = "multer"
    /\ IF upload[r] = "none"
         THEN /\ pc' = [pc EXCEPT ![r] = Succ("rmbg", "multer")]
              /\ UNCHANGED <<reqFile, disk, responses>>
         ELSE IF ~fileFilter(upload[r])
           THEN /\ Respond(r, 500, "error")
                /\ pc' = [pc EXCEPT ![r] = "done"]
                /\ UNCHANGED <<reqFile, disk>>
           ELSE IF OverLimit(upload[r])
             THEN /\ disk' = disk \cup {r}
                  /\ pc' = [pc EXCEPT ![r] = "multerAbort"]
                  /\ UNCHANGED <<reqFile, responses>>
             ELSE /\ disk' = disk \cup {r}
                  /\ reqFile' = [reqFile EXCEPT ![r] = TRUE]
                  /\ pc' = [pc EXCEPT ![r] = Succ("rmbg", "multer")]
                  /\ UNCHANGED responses
    /\ UNCHANGED <<endpoint, upload, htmlKind, tempPath, unlinkLogged, browser,
                   browserState, closedBy, closeFailed, imagesPending, frame, buffer,
                   escaped, htmlVars>>

\* the part passes limits.fileSize while being written: multer removes the
\* partial file and calls next(err); the default handler answers 500
MulterAbort(r) ==
    /\ pc[r] = "multerAbort"
    /\ disk' = disk \ {r}
    /\ Respond(r, 500, "error")
    /\ pc' = [pc EXCEPT ![r] = "done"]
    /\ UNCHANGED <<endpoint, upload, htmlKind, reqFile, tempPath, unlinkLogged,
                   browser, browserState, closedBy, closeFailed, imagesPending,
                   frame, buffer, escaped, htmlVars>>

\* if (!req.file) return res.status(400)...; tempPath = req.file.path
CheckFile(r) ==
    /\ pc[r] = "checkFile"
    /\ IF ~reqFile[r]
         THEN /\ Respond(r, 400, "error")
              /\ pc' = [pc EXCEPT ![r] = "done"]
              /\ UNCHANGED tempPath
         ELSE /\ tempPath' = [tempPath EXCEPT ![r] = r]
              /\ pc' = [pc EXCEPT ![r] = Succ("rmbg", "checkFile")]
              /\ UNCHANGED responses
    /\ UNCHANGED <<endpoint, upload, htmlKind, reqFile, disk, unlinkLogged, browser,
                   browserState, closedBy, closeFailed, imagesPending, frame, buffer,
                   escaped, htmlVars>>

\* the html check of /api/render and of /render
Validate(r) ==
    /\ pc[r] = "validate"
    /\ LET rejects == IF endpoint[r] = "apiRender"
                        THEN ApiRenderRejects(htmlKind[r])
                        ELSE RenderRejects(htmlKind[r])
       IN  IF rejects
             THEN /\ Respond(r, 400, "error")
                  /\ pc' = [pc EXCEPT ![r] = "done"]
             ELSE /\ pc' = [pc EXCEPT ![r] = Succ(endpoint[r], "validate")]
                  /\ UNCHANGED responses
    /\ UNCHANGED <<endpoint, upload, htmlKind, reqFile, tempPath, disk, unlinkLogged,
                   browser, browserState, closedBy, closeFailed, imagesPending,
                   frame, buffer, escaped, htmlVars>>

\* an awaited call resolves
AwaitOk(r) ==
    /\ pc[r] \in PlainSteps
    /\ pc' = [pc EXCEPT ![r] = Succ(endpoint[r], pc[r])]
    /\ UNCHANGED <<endpoint, upload, htmlKind, reqFile, tempPath, disk, unlinkLogged,
                   browser, browserState, closedBy, closeFailed, imagesPending,
                   frame, buffer, responses, escaped, htmlVars>>

\* an awaited call of the try block rejects: control enters the catch block
\* (the page and the evaluate callback's locals are gone with it)
AwaitThrow(r) ==
    /\ pc[r] \in ThrowingSteps
    /\ pc' = [pc EXCEPT ![r] = CatchOf(endpoint[r])]
    /\ imagesPending' = [imagesPending EXCEPT ![r] = 0]
    /\ frame' = [frame EXCEPT ![r] = 0]
    /\ UNCHANGED <<endpoint, upload, htmlKind, reqFile, tempPath, disk, unlinkLogged,
                   browser, browserState, closedBy, closeFailed, buffer, responses,
                   escaped, htmlVars>>

\* Buffer.from(await resultBlob.arrayBuffer())
ArrayBuffer(r) ==
    /\ pc[r] = "arrayBuffer"
    /\ buffer' = [buffer EXCEPT ![r] = tempPath[r]]
    /\ pc' = [pc EXCEPT ![r] = Succ(endpoint[r], pc[r])]
    /\ UNCHANGED <<endpoint, upload, htmlKind, reqFile, tempPath, disk, unlinkLogged,
                   browser, browserState, closedBy, closeFailed, imagesPending,
                   frame, responses, escaped, htmlVars>>

\* await fs.unlink(tempPath) of the try block
Unlink(r) ==
    /\ pc[r] = "unlink"
    /\ \/ /\ tempPath[r] \in disk
          /\ disk' = disk \ {tempPath[r]}
          /\ pc' = [pc EXCEPT ![r] = Succ(endpoint[r], pc[r])]
       \/ /\ pc' = [pc EXCEPT ![r] = CatchOf(endpoint[r])]
          /\ UNCHANGED disk
    /\ UNCHANGED <<endpoint, upload, htmlKind, reqFile, tempPath, unlinkLogged,
                   browser, browserState, closedBy, closeFailed, imagesPending,
                   frame, buffer, responses, escaped, htmlVars>>

\* catch block of /api/remove-background: the unlink in its own try/catch
CatchUnlink(r) ==
    /\ pc[r] = "catchUnlink"
    /\ IF CatchShouldUnlink(r)
         THEN \/ /\ tempPath[r] \in disk
                 /\ disk' = disk \ {tempPath[r]}
                 /\ UNCHANGED unlinkLogged
              \/ /\ unlinkLogged' = unlinkLogged \cup {r}
                 /\ UNCHANGED disk
         ELSE UNCHANGED <<disk, unlinkLogged>>
    /\ pc' = [pc EXCEPT ![r] = "respond500"]
    /\ UNCHANGED <<endpoint, upload, htmlKind, reqFile, tempPath, browser,
                   browserState, closedBy, closeFailed, imagesPending, frame, buffer,
                   responses, escaped, htmlVars>>

\* browser = await puppeteer.launch(..): one new browser process per request
Launch(r) ==
    /\ pc[r] = "launch"
    /\ browserState[r] = "none"
    /\ browser' = [browser EXCEPT ![r] = r]
    /\ browserState' = [browserState EXCEPT ![r] = "open"]
    /\ pc' = [pc EXCEPT ![r] = Succ(endpoint[r], pc[r])]
    /\ UNCHANGED <<endpoint, upload, htmlKind, reqFile, tempPath, disk, unlinkLogged,
                   closedBy, closeFailed, imagesPending, frame, buffer, responses,
                   escaped, htmlVars>>

\* await page.setContent(..): the page may hold images that are not complete
SetContent(r) ==
    /\ pc[r] = "setContent"
    /\ IF endpoint[r] = "render"
         THEN \E n \in 0 .. MaxImages :
                imagesPending' = [imagesPending EXCEPT ![r] = n]
         ELSE UNCHANGED imagesPending
    /\ pc' = [pc EXCEPT ![r] = Succ(endpoint[r], pc[r])]
    /\ UNCHANGED <<endpoint, upload, htmlKind, reqFile, tempPath, disk, unlinkLogged,
                   browser, browserState, closedBy, closeFailed, frame, buffer,
                   responses, escaped, htmlVars>>

\* a pending image fires 'load' or 'error'
ImageSettled(r) ==
    /\ pc[r] = "images"
    /\ imagesPending[r] > 0
    /\ imagesPending' = [imagesPending EXCEPT ![r] = @ - 1]
    /\ UNCHANGED <<pc, endpoint, upload, htmlKind, reqFile, tempPath, disk,
                   unlinkLogged, browser, browserState, closedBy, closeFailed, frame,
                   buffer, responses, escaped, htmlVars>>

\* Promise.all over the images resolves
ImagesDone(r) ==
    /\ pc[r] = "images"
    /\ imagesPending[r] = 0
    /\ pc' = [pc EXCEPT ![r] = Succ(endpoint[r], pc[r])]
    /\ UNCHANGED <<endpoint, upload, htmlKind, reqFile, tempPath, disk, unlinkLogged,
                   browser, browserState, closedBy, closeFailed, imagesPending,
                   frame, buffer, responses, escaped, htmlVars>>

\* one round of the loop: requestAnimationFrame, then the 50 ms timer, i++;
\* after the last round the callback returns and i goes out of scope
FrameRound(r) ==
    /\ pc[r] = "frames"
    /\ frame[r] < FrameRounds
    /\ IF frame[r] + 1 < FrameRounds
         THEN /\ frame' = [frame EXCEPT ![r] = @ + 1]
              /\ UNCHANGED pc
         ELSE /\ frame' = [frame EXCEPT ![r] = 0]
              /\ pc' = [pc EXCEPT ![r] = Succ(endpoint[r], "frames")]
    /\ UNCHANGED <<endpoint, upload, htmlKind, reqFile, tempPath, disk, unlinkLogged,
                   browser, browserState, closedBy, closeFailed, imagesPending,
                   buffer, responses, escaped, htmlVars>>

\* await page.screenshot(..): the buffer comes from the request's own page
Screenshot(r) ==
    /\ pc[r] = "screenshot"
    /\ buffer' = [buffer EXCEPT ![r] = browser[r]]
    /\ pc' = [pc EXCEPT ![r] = Succ(endpoint[r], pc[r])]
    /\ UNCHANGED <<endpoint, upload, htmlKind, reqFile, tempPath, disk, unlinkLogged,
                   browser, browserState, closedBy, closeFailed, imagesPending,
                   frame, responses, escaped, htmlVars>>

\* await browser.close() of the try block: resolves, or rejects into the catch
Close(r) ==
    /\ pc[r] = "close"
    /\ LET b == CloseTarget(r)
       IN  \/ /\ browserState' = [browserState EXCEPT ![b] = "closed"]
              /\ closedBy' = [closedBy EXCEPT ![b] = r]
              /\ pc' = [pc EXCEPT ![r] = Succ(endpoint[r], pc[r])]
              /\ UNCHANGED closeFailed
           \/ /\ closeFailed' = closeFailed \cup {b}
              /\ pc' = [pc EXCEPT ![r] = CatchOf(endpoint[r])]
              /\ UNCHANGED <<browserState, closedBy>>
    /\ UNCHANGED <<endpoint, upload, htmlKind, reqFile, tempPath, disk, unlinkLogged,
                   browser, imagesPending, frame, buffer, responses, escaped,
                   htmlVars>>

\* catch block of /api/render: if (browser) await browser.close(), unguarded;
\* a rejection leaves the async handler, whose promise nothing observes
CatchClose(r) ==
    /\ pc[r] = "catchClose"
    /\ IF CatchShouldClose(r)
         THEN LET b == CloseTarget(r)
              IN  \/ /\ browserState' = [browserState EXCEPT ![b] = "closed"]
                     /\ closedBy' = [closedBy EXCEPT ![b] = r]
                     /\ pc' = [pc EXCEPT ![r] = "respond500"]
                     /\ UNCHANGED <<closeFailed, escaped>>
                  \/ /\ closeFailed' = closeFailed \cup {b}
                     /\ escaped' = [escaped EXCEPT ![r] = TRUE]
                     /\ pc' = [pc EXCEPT ![r] = "rejected"]
                     /\ UNCHANGED <<browserState, closedBy>>
         ELSE /\ pc' = [pc EXCEPT ![r] = "respond500"]
              /\ UNCHANGED <<browserState, closedBy, closeFailed, escaped>>
    /\ UNCHANGED <<endpoint, upload, htmlKind, reqFile, tempPath, disk, unlinkLogged,
                   browser, imagesPending, frame, buffer, responses, htmlVars>>

\* catch block of captureHtml: if (browser) await browser.close(); throw error.
\* Either the original error or close()'s rejection reaches /render's catch
CaptureCatch(r) ==
    /\ pc[r] = "captureCatch"
    /\ IF CatchShouldClose(r)
         THEN LET b == CloseTarget(r)
              IN  \/ /\ browserState' = [browserState EXCEPT ![b] = "closed"]
                     /\ closedBy' = [closedBy EXCEPT ![b] = r]
                     /\ UNCHANGED closeFailed
                  \/ /\ closeFailed' = closeFailed \cup {b}
                     /\ UNCHANGED <<browserState, closedBy>>
         ELSE UNCHANGED <<browserState, closedBy, closeFailed>>
    /\ pc' = [pc EXCEPT ![r] = "respond500"]
    /\ UNCHANGED <<endpoint, upload, htmlKind, reqFile, tempPath, disk, unlinkLogged,
                   browser, imagesPending, frame, buffer, responses, escaped,
                   htmlVars>>

\* res.send(buffer) / res.send(screenshot): the 200 response
Send(r) ==
    /\ pc[r] = "send"
    /\ Respond(r, 200, buffer[r])
    /\ pc' = [pc EXCEPT ![r] = Succ(endpoint[r], pc[r])]
    /\ UNCHANGED <<endpoint, upload, htmlKind, reqFile, tempPath, disk, unlinkLogged,
                   browser, browserState, closedBy, closeFailed, imagesPending,
                   frame, buffer, escaped, htmlVars>>

\* res.status(500).json(..) at the end of a handler's catch block
Respond500(r) ==
    /\ pc[r] = "respond500"
    /\ Respond(r, 500, "error")
    /\ pc' = [pc EXCEPT ![r] = "done"]
    /\ UNCHANGED <<endpoint, upload, htmlKind, reqFile, tempPath, disk, unlinkLogged,
                   browser, browserState, closedBy, closeFailed, imagesPending,
                   frame, buffer, escaped, htmlVars>>

Step(r) ==
    \/ Arrive(r) \/ Multer(r) \/ MulterAbort(r) \/ CheckFile(r) \/ Validate(r)
    \/ AwaitOk(r) \/ AwaitThrow(r) \/ ArrayBuffer(r) \/ Unlink(r) \/ CatchUnlink(r)
    \/ Launch(r) \/ SetContent(r) \/ ImageSettled(r) \/ ImagesDone(r)
    \/ FrameRound(r) \/ Screenshot(r) \/ Close(r) \/ CatchClose(r)
    \/ CaptureCatch(r) \/ Send(r) \/ Respond500(r)

Next == \E r \in Reqs : Step(r)

Spec == Init /\ [][Next]_vars

\* every continuation the event loop holds is eventually run; every pending
\* awaited call eventually settles
FairSpec == Spec /\ \A r \in Reqs : WF_vars(pc[r] # "idle" /\ Step(r))

(* ---------- HTML preprocessing (captureHtml, lines 341-342) ---------- *)
\* HTML as a sequence of tokens:
\*   "t"    text without a newline      "nl"   text holding a newline
\*   "head" </head>
\*   "so"   <script ...>                "sc"   </script>
\*   "io"   <iframe ...>                "ic"   </iframe>
\*   "pg"   <link rel="preconnect" href="https://fonts.googleapis.com">
\*   "ps"   <link rel="preconnect" href="https://fonts.gstatic.com" crossorigin>
\*   "L1", "L2"  two different <link href="https://fonts.googleapis.com/css..."> tags
\*   "S1", "S2"  the <style data-inlined-google-fonts> tags that replace them
Tokens == {"t", "nl", "head", "so", "sc", "io", "ic", "pg", "ps", "L1", "L2"}

\* tags linkRegex matches (the preconnect hrefs have no path, so they do not)
FontLinks == {"L1", "L2"}

\* `<style data-inlined-google-fonts>${css}</style>` for the stylesheet of a link
StyleOf(tag) == IF tag = "L1" THEN "S1" ELSE "S2"

\* what fetch(href) / cssRes.text() can do: an OK response, a non-OK status,
\* a rejected fetch, a rejected body read
FetchOutcomes == {"ok", "notOk", "throws", "textThrows"}

RECURSIVE SeqsUpTo(_)
SeqsUpTo(n) ==
    IF n = 0 THEN {<<>>}
    ELSE LET shorter == SeqsUpTo(n - 1)
         IN  shorter \cup {Append(s, x) : s \in {q \in shorter : Len(q) = n - 1},
                                          x \in Tokens}

Includes(s, tok) == \E i \in DOMAIN s : s[i] = tok

Count(tok, s) == Cardinality({i \in DOMAIN s : s[i] = tok})

\* String.prototype.replace with a string pattern: the first occurrence only
ReplaceFirst(s, tok, rep) ==
    IF ~Includes(s, tok) THEN s
    ELSE LET i == CHOOSE j \in DOMAIN s :
                     s[j] = tok /\ \A k \in 1 .. j - 1 : s[k] # tok
         IN  SubSeq(s, 1, i - 1) \o rep \o SubSeq(s, i + 1, Len(s))

\* .replace(/<script\b[^<]*(?:(?!<\/script>)<[^<]*)*<\/script>/gi, ''):
\* from an opening tag to the first closing tag after it, scanning left to right
RECURSIVE StripScriptsFrom(_, _)
StripScriptsFrom(s, i) ==
    IF i > Len(s) THEN <<>>
    ELSE IF s[i] = "so" /\ \E j \in i + 1 .. Len(s) : s[j] = "sc"
      THEN LET j == CHOOSE j \in i + 1 .. Len(s) :
                        s[j] = "sc" /\ \A k \in i + 1 .. j - 1 : s[k] # "sc"
           IN  StripScriptsFrom(s, j + 1)
      ELSE <<s[i]>> \o StripScriptsFrom(s, i + 1)

\* .replace(/<iframe[^>]*>.*?<\/iframe>/gi, ''): `.` does not match a newline,
\* so the first closing tag must come before any newline
RECURSIVE StripIframesFrom(_, _)
StripIframesFrom(s, i) ==
    IF i > Len(s) THEN <<>>
    ELSE IF /\ s[i] = "io"
            /\ \E j \in i + 1 .. Len(s) :
                  s[j] = "ic" /\ \A k \in i + 1 .. j - 1 : s[k] \notin {"ic", "nl"}
      THEN LET j == CHOOSE j \in i + 1 .. Len(s) :
                        s[j] = "ic" /\ \A k \in i + 1 .. j - 1 : s[k] \notin {"ic", "nl"}
           IN  StripIframesFrom(s, j + 1)
      ELSE <<s[i]>> \o StripIframesFrom(s, i + 1)

\* the hints injected when the two test() calls do not find them
preconnectLinks(h) ==
    (IF Includes(h, "pg") THEN <<>> ELSE <<"pg">>)
      \o (IF Includes(h, "ps") THEN <<>> ELSE <<"ps">>)

processHtmlForRendering(h) ==
    LET pre == preconnectLinks(h)
        injected == IF pre = <<>> THEN h
                    ELSE IF Includes(h, "head")
                      THEN ReplaceFirst(h, "head", pre \o <<"head">>)
                      ELSE pre \o h
    IN  StripIframesFrom(StripScriptsFrom(injected, 1), 1)

\* the link tags linkRegex.exec finds, in document order
LinkTags(h) == SelectSeq(h, LAMBDA x : x \in FontLinks)

\* a loop that drops the link tag when its stylesheet cannot be fetched
AfterFetchDropsTag(inl, tag, outcome) ==
    IF outcome = "ok" THEN ReplaceFirst(inl, tag, <<StyleOf(tag)>>)
    ELSE ReplaceFirst(inl, tag, <<>>)

\* one iteration of the for loop over links: only an OK response that is read
\* replaces the tag; `continue` and the empty catch leave `inlined` as it is
AfterFetch(inl, tag, outcome) ==
    IF outcome = "ok" THEN ReplaceFirst(inl, tag, <<StyleOf(tag)>>) ELSE inl

HtmlInit ==
    /\ ReqInit
    /\ hPc = "input"
    /\ html \in SeqsUpTo(MaxLen)
    /\ cleanHtml = <<>>
    /\ links = <<>>
    /\ inlined = <<>>
    /\ fetched = <<>>

\* let cleanHtml = processHtmlForRendering(html); inlineGoogleFonts collects links
Preprocess ==
    /\ hPc = "input"
    /\ cleanHtml' = processHtmlForRendering(html)
    /\ links' = LinkTags(cleanHtml')
    /\ inlined' = cleanHtml'
    /\ hPc' = "inlining"
    /\ UNCHANGED <<html, fetched, reqVars>>

\* one iteration of `for (const linkTag of links)`
FetchLink ==
    /\ hPc = "inlining"
    /\ links # <<>>
    /\ \E o \in FetchOutcomes :
         /\ inlined' = AfterFetch(inlined, Head(links), o)
         /\ fetched' = Append(fetched, [tag |-> Head(links), outcome |-> o])
    /\ links' = Tail(links)
    /\ UNCHANGED <<hPc, html, cleanHtml, reqVars>>

\* return inlined; cleanHtml = await inlineGoogleFonts(cleanHtml); then launch
InlineReturn ==
    /\ hPc = "inlining"
    /\ links = <<>>
    /\ cleanHtml' = inlined
    /\ hPc' = "launch"
    /\ UNCHANGED <<html, links, inlined, fetched, reqVars>>

HtmlNext == Preprocess \/ FetchLink \/ InlineReturn

HtmlSpec == HtmlInit /\ [][HtmlNext]_vars

(* ---------- properties ---------- *)
Answered(r) == responses[r] # <<>>

Status(r) == responses[r][1].status

\* the handler has returned, or its promise has rejected
Ended(r) == pc[r] \in {"done", "rejected"}

RenderEndpoints == {"apiRender", "render"}

\* the success-path cleanup of the request has been performed
Cleaned(r) ==
    IF endpoint[r] = "rmbg"
      THEN tempPath[r] \notin disk
      ELSE browser[r] # NoBrowser /\ browserState[browser[r]] = "closed"

\* C1: an upload over the size limit or of a disallowed MIME type is answered
\* with status 400, and no temp file of that upload is left on disk.
C1_RejectedUploadGets400 ==
    \A r \in Reqs :
        (endpoint[r] = "rmbg" /\ upload[r] \in {"badMime", "tooBig"} /\ Answered(r))
            => (Status(r) = 400 /\ r \notin disk)

\* C2 as stated: once a remove-background request is answered, its temp file
\* is gone, whatever failed, the unlink included.
C2_NoTempFileAfterAnswer ==
    \A r \in Reqs : (endpoint[r] = "rmbg" /\ Answered(r)) => r \notin disk

\* C2 amended: once a remove-background request is answered, its temp file is
\* gone unless the catch block's own unlink failed, which the handler logged.
C2_TempFileGoneUnlessUnlinkFailed ==
    \A r \in Reqs :
        (endpoint[r] = "rmbg" /\ Answered(r) /\ r \in disk) => r \in unlinkLogged

\* a processing failure after the upload was stored, answered 500, file deleted
C2_Witness ==
    \E r \in Reqs :
        /\ endpoint[r] = "rmbg" /\ tempPath[r] # NoPath
        /\ Answered(r) /\ Status(r) = 500
        /\ r \notin disk /\ r \notin unlinkLogged

\* C3: a render request whose html is missing, empty or not a string is
\* answered with status 400, on /api/render and on /render alike.
C3_BadHtmlGets400 ==
    \A r \in Reqs :
        (/\ endpoint[r] \in RenderEndpoints
         /\ htmlKind[r] \in {"undefined", "emptyString", "number", "object"}
         /\ pc[r] \notin {"idle", "validate"})
            => (Answered(r) /\ Status(r) = 400)

C5_ErrorsCaughtAtBoundary ==
    \A r \in Reqs : ~escaped[r] /\ (Ended(r) => Len(responses[r]) = 1)

\* C6: concurrent render requests are independent: each browser is held only
\* by the request that launched it and closed only by that request, and each
\* result buffer and 200 response body comes from the request's own browser.
C6_RequestsIndependent ==
    /\ \A r \in Reqs : browser[r] \in {NoBrowser, r}
    /\ \A b \in Reqs : browserState[b] # "none" => browser[b] = b
    /\ \A b \in Reqs : closedBy[b] \in {0, b}
    /\ \A b \in Reqs : browserState[b] = "closed" => closedBy[b] = b
    /\ \A r \in Reqs :
          endpoint[r] \in RenderEndpoints =>
              /\ buffer[r] \in {NoBuffer, r}
              /\ \A i \in DOMAIN responses[r] :
                    responses[r][i].status = 200 => responses[r][i].body = r

\* one request has closed its browser and sent its PNG while another request's
\* browser is still open in the middle of its stabilisation loop
C6_Witness ==
    \E r1, r2 \in Reqs :
        /\ r1 # r2
        /\ endpoint[r1] = "render" /\ Answered(r1) /\ Status(r1) = 200
        /\ closedBy[r1] = r1
        /\ endpoint[r2] = "render" /\ pc[r2] = "frames" /\ frame[r2] > 0
        /\ browserState[r2] = "open"

\* C7 as stated: on the success path the response is sent before the cleanup,
\* so when the 200 response is about to be written the cleanup is still to come.
C7_RespondBeforeCleanup ==
    \A r \in Reqs : pc[r] = "send" => ~Cleaned(r)

\* C7 amended: on the success path the cleanup (unlink, browser close) is
\* performed before the 200 response is sent.
C7_CleanupBeforeRespond ==
    \A r \in Reqs :
        (pc[r] = "send" \/ (Answered(r) /\ Status(r) = 200)) => Cleaned(r)

\* a background removal and a render both answered 200 after their cleanup
C7_Witness ==
    \E r1, r2 \in Reqs :
        /\ endpoint[r1] = "rmbg" /\ Answered(r1) /\ Status(r1) = 200 /\ Cleaned(r1)
        /\ endpoint[r2] = "render" /\ Answered(r2) /\ Status(r2) = 200 /\ Cleaned(r2)

\* C8: a capture that passed validation is eventually answered (PNG or 500).
C8_CaptureAlwaysAnswered ==
    \A r \in Reqs :
        (endpoint[r] \in RenderEndpoints /\ pc[r] \in {"launch", "preprocess"})
            ~> Answered(r)

\* the same for POST /render alone, whose catch block awaits nothing
RenderCaptureAlwaysAnswered ==
    \A r \in Reqs : (endpoint[r] = "render" /\ pc[r] = "preprocess") ~> Answered(r)

\* the stabilisation wait of captureHtml is always left
StabilisationAlwaysFinishes ==
    \A r \in Reqs :
        (pc[r] \in {"fontsReady", "images", "frames", "delay"})
            ~> (pc[r] \notin {"fontsReady", "images", "frames", "delay"})

\* fetches of the link tag that did not end in a replaced tag
FailedFetches(tag) ==
    Cardinality({i \in DOMAIN fetched :
                    fetched[i].tag = tag /\ fetched[i].outcome # "ok"})

HintCount(s) == Count("pg", s) + Count("ps", s)

\* an opening tag with its closing tag somewhere after it
HasElement(s, open, close) ==
    \E i, j \in DOMAIN s : i < j /\ s[i] = open /\ s[j] = close

\* C10: the preprocessed HTML holds a preconnect hint for both font hosts, no
\* <script> or <iframe> element, and preprocessing it again adds no hint.
C10_HintsPresentAndStable ==
    hPc = "inlining" =>
        /\ Includes(cleanHtml, "pg")
        /\ Includes(cleanHtml, "ps")
        /\ ~HasElement(cleanHtml, "so", "sc")
        /\ ~HasElement(cleanHtml, "io", "ic")
        /\ HintCount(processHtmlForRendering(cleanHtml)) = HintCount(cleanHtml)

====
